---- MODULE Spec2Model ----
(***************************************************************************)
(* Model of scraper/scrape_and_push.py: one sampling cycle (main) of the   *)
(* Icecast listener scraper: fetch (JSON, then HTML fallback), aggregation *)
(* over TRACKED_MOUNTPOINTS, the CSV history store and the JSON artifacts. *)
(*                                                                         *)
(* Python values are records [t, n, s]: t is the type tag, n the integer   *)
(* payload, s the text payload.  Time is counted in ticks; one calendar    *)
(* month is TicksPerMonth ticks and a year is MonthsPerYear months, so the *)
(* conversion of timestamp_ms to a UTC (year, month) keeps its shape while *)
(* the numbers stay small.                                                 *)
(***************************************************************************)
EXTENDS Integers, Sequences, FiniteSets, TLC

\* ------------------------------ bounds ---------------------------------
MaxStored    == 2   \* rows of the history file in the initial state
MaxListeners == 1   \* largest listener count reported upstream
MaxDrift     == 1   \* ticks the clock may advance between two clock reads
MaxFaults    == 1   \* file-system errors injected per cycle

\* --------------------------- calendar ----------------------------------
BaseYear      == 2024
MonthsPerYear == 12
TicksPerMonth == 1

MonthIndex(ts) == ts \div TicksPerMonth
YearOf(ts)     == BaseYear + (MonthIndex(ts) \div MonthsPerYear)
MonthOf(ts)    == (MonthIndex(ts) % MonthsPerYear) + 1
\* f"{dt.year:04d}-{dt.month:02d}" as the pair it is formatted from
MonthKey(ts)   == <<YearOf(ts), MonthOf(ts)>>

\* --------------------------- Python values -----------------------------
None       == [t |-> "none",   n |-> 0, s |-> ""]
IntV(i)    == [t |-> "int",    n |-> i, s |-> ""]
Digits(i)  == [t |-> "digits", n |-> i, s |-> ""]   \* the str of decimal digits of i
IsoText(c) == [t |-> "iso",    n |-> c, s |-> ""]   \* datetime.isoformat() of instant c
Text(x)    == [t |-> "text",   n |-> 0, s |-> x]    \* any other str
RestList   == [t |-> "list",   n |-> 0, s |-> ""]   \* the list DictReader puts under restkey
Inf        == [t |-> "inf",    n |-> 0, s |-> ""]   \* float('inf'), what json gives for 1e999
Raised     == [t |-> "raise",  n |-> 0, s |-> ""]   \* an exception instead of a value

\* int(v) succeeds
CanInt(v) == v.t \in {"int", "digits"}
\* str(v) as csv.writer emits it (None is written as the empty string)
CsvStr(v) ==
  CASE v.t = "int"  -> Digits(v.n)
    [] v.t = "none" -> Text("")
    [] v.t = "list" -> Text("[...]")
    [] OTHER        -> v

\* a safe_int that hands back what it could not parse
safe_int_unparsed(value, default) ==
  IF value = None THEN default
  ELSE IF CanInt(value) THEN IntV(value.n)
  ELSE value

\* int(inf) raises OverflowError, which safe_int does not catch
safe_int(value, default) ==
  IF value = None THEN default
  ELSE IF value = Inf THEN Raised
  ELSE IF CanInt(value) THEN IntV(value.n)
  ELSE default

\* ------------------------------ maps -----------------------------------
EmptyMap == [x \in {} |-> None]
Put(m, k, v) == [x \in (DOMAIN m) \cup {k} |-> IF x = k THEN v ELSE m[x]]
Range(q) == {q[i] : i \in DOMAIN q}

\* --------------------------- configuration -----------------------------
Tower(id, mp, label, charts, hist) ==
  [id |-> id, mountpoint |-> mp, label |-> label,
   include_in_charts |-> charts, include_in_history |-> hist]

\* TRACKED_MOUNTPOINTS as an ordered registry (dict insertion order).
RegistryOfCode ==
  << Tower("tower1", "/tower1", "Tower 1", TRUE, TRUE),
     Tower("tower2", "/tower2", "Tower 2", TRUE, TRUE) >>

\* The registries a deployment may be configured with: the one of the code,
\* one with an information-only source, one with a charted source kept out
\* of the history, and the empty one.
Registries ==
  { RegistryOfCode,
    << Tower("tower1", "/tower1", "Tower 1", TRUE, TRUE),
       Tower("tower2", "/tower2", "Tower 2", FALSE, TRUE) >>,
    << Tower("tower1", "/tower1", "Tower 1", TRUE, FALSE),
       Tower("tower2", "/tower2", "Tower 2", FALSE, FALSE) >>,
    << >> }

\* ------------------------- Icecast JSON parsing ------------------------
\* urlparse(listenurl).path
UrlPath(u) ==
  CASE u = "http://host:8000/tower1" -> "/tower1"
    [] u = "http://host:8000/tower2" -> "/tower2"
    [] u = "http://host:8000/other"  -> "/other"
    [] OTHER                         -> ""

Src(url, mount, listeners, peak) ==
  [isdict |-> TRUE, listenurl |-> url, mount |-> mount,
   listeners |-> listeners, listener_peak |-> peak]
NotADict == [isdict |-> FALSE, listenurl |-> None, mount |-> None,
             listeners |-> None, listener_peak |-> None]

Metric(mp, listeners, peak) ==
  [mountpoint |-> mp, listeners |-> listeners, listener_peak |-> peak]
NoMetric == Metric("", None, None)

Truthy(v) == ~(v = None \/ v = Text("") \/ v = IntV(0))

\* a listenurl that is not a str: urlparse raises, and so does the
\* re.search of the handler, which ends parse_mount_source in its own except
UrlRaises(listenurl) == Truthy(listenurl) /\ listenurl.t # "text"

parse_mount_source(source) ==
  IF ~source.isdict THEN NoMetric
  ELSE IF UrlRaises(source.listenurl) THEN NoMetric
  ELSE
    LET fromUrl == IF Truthy(source.listenurl) THEN UrlPath(source.listenurl.s) ELSE ""
        mountpoint == IF fromUrl # "" THEN fromUrl
                      ELSE IF Truthy(source.mount) THEN source.mount.s
                      ELSE ""
        listeners == safe_int(source.listeners, IntV(0))
        peak == safe_int(source.listener_peak, None)
    IN IF mountpoint = "" THEN NoMetric
       ELSE IF listeners = Raised \/ peak = Raised THEN NoMetric
       ELSE Metric(mountpoint, listeners, peak)

RECURSIVE FoldSources(_, _)
FoldSources(sources, mounts) ==
  IF sources = << >> THEN mounts
  ELSE LET mount_info == parse_mount_source(Head(sources))
       IN FoldSources(Tail(sources),
                      IF mount_info # NoMetric
                      THEN Put(mounts, mount_info.mountpoint, mount_info)
                      ELSE mounts)

\* A decoded status document: kind is the shape of icestats.source.
JsonDoc(kind, sources) == [kind |-> kind, sources |-> sources]

parse_icecast_json(data) ==
  CASE data.kind = "absent" -> EmptyMap
    [] data.kind = "dict"   -> FoldSources(<<Head(data.sources)>>, EmptyMap)
    [] data.kind = "list"   -> FoldSources(data.sources, EmptyMap)
    [] OTHER                -> EmptyMap

\* ------------------------- Icecast HTML parsing ------------------------
\* str.lower() on the header texts a status page may carry
Lower(h) ==
  CASE h = "Mount Point"       -> "mount point"
    [] h = "Mount"             -> "mount"
    [] h = "Listeners"         -> "listeners"
    [] h = "LISTENERS"         -> "listeners"
    [] h = "Peak Listeners"    -> "peak listeners"
    [] h = "Current Listeners" -> "current listeners"
    [] h = "Genre"             -> "genre"
    [] OTHER                   -> h

ContainsMount(h) == h \in {"mount point", "mount", "mountpoint"}
ContainsPeak(h)  == h \in {"peak", "peak listeners"}
StartsWithSlash(m) == m \in {"/tower1", "/tower2", "/other"}

\* for i, h in enumerate(headers): the index kept for each column kind
RECURSIVE HeaderScan(_, _, _)
HeaderScan(headers, i, idx) ==
  IF i > Len(headers) THEN idx
  ELSE LET h == headers[i]
       IN HeaderScan(headers, i + 1,
            IF ContainsMount(h) THEN [idx EXCEPT !.mount = i]
            ELSE IF h = "listeners" THEN [idx EXCEPT !.listeners = i]
            ELSE IF ContainsPeak(h) THEN [idx EXCEPT !.peak = i]
            ELSE idx)

NoIdx == [mount |-> 0, listeners |-> 0, peak |-> 0]
Max2(a, b) == IF a >= b THEN a ELSE b

\* re.sub(r"[^0-9]", "", s): the digits of a cell, "" when it has none
DigitFilter(cell) == IF cell.t = "digits" THEN cell ELSE Text("")

\* td.get_text(strip=True)
CellText(cell) == IF cell.t = "digits" THEN ToString(cell.n) ELSE cell.s

RECURSIVE FoldRows(_, _, _)
FoldRows(rows, idx, mounts) ==
  IF rows = << >> THEN mounts
  ELSE
    LET cells == Head(rows)
        rest  == Tail(rows)
    IN IF Len(cells) < Max2(idx.mount, idx.listeners) THEN FoldRows(rest, idx, mounts)
       ELSE LET raw == CellText(cells[idx.mount])
            IN IF raw = "" \/ Lower(raw) = "mount point"
               THEN FoldRows(rest, idx, mounts)
               ELSE LET mount == IF StartsWithSlash(raw) THEN raw ELSE "/" \o raw
                        listeners == safe_int(DigitFilter(cells[idx.listeners]), IntV(0))
                        peak == IF idx.peak # 0 /\ Len(cells) >= idx.peak
                                THEN safe_int(DigitFilter(cells[idx.peak]), None)
                                ELSE None
                    IN FoldRows(rest, idx, Put(mounts, mount, Metric(mount, listeners, peak)))

RECURSIVE FoldTables(_, _)
FoldTables(tables, mounts) ==
  IF tables = << >> THEN mounts
  ELSE LET table == Head(tables)
           headers == [i \in DOMAIN table.headers |-> Lower(table.headers[i])]
           idx == HeaderScan(headers, 1, NoIdx)
       IN IF headers = << >> \/ idx.mount = 0 \/ idx.listeners = 0
          THEN FoldTables(Tail(tables), mounts)
          ELSE FoldTables(Tail(tables),
                          FoldRows(<<[i \in DOMAIN table.headers |-> Text(table.headers[i])]>>
                                     \o table.rows, idx, mounts))

parse_icecast_html(html) == FoldTables(html, EmptyMap)

\* ------------------------------ fetching --------------------------------
\* Optional[Dict]: some = FALSE is Python's None
Some(mounts) == [some |-> TRUE, mounts |-> mounts]
NoStatus     == [some |-> FALSE, mounts |-> EmptyMap]

\* What the upstream server may answer to the JSON status request.
JsonDocs ==
  { JsonDoc("absent", << >>),
    JsonDoc("other",  << >>),
    JsonDoc("dict", << Src(Text("http://host:8000/tower1"), None, IntV(MaxListeners), None) >>),
    JsonDoc("list", << NotADict,
                       Src(None, Text("/tower2"), Digits(MaxListeners), IntV(MaxListeners)) >>),
    JsonDoc("list", << Src(Text("http://host:8000/other"), None, IntV(MaxListeners), None),
                       Src(Text("http://host:8000"), None, IntV(1), None) >>) }
    \cup { JsonDoc("list", << Src(Text("http://host:8000/tower1"), Text("/x"), l1, None),
                              Src(Text("http://host:8000/tower2"), None, IntV(MaxListeners), None) >>)
           : l1 \in {IntV(0), Text("many"), None} }

JsonOutcomes ==
  { [kind |-> k, doc |-> JsonDoc("absent", << >>)] : k \in {"neterr", "httperr", "decodeerr"} }
  \cup { [kind |-> "ok", doc |-> d] : d \in JsonDocs }

fetch_icecast_status_json(outcome) ==
  IF outcome.kind = "ok" THEN Some(parse_icecast_json(outcome.doc)) ELSE NoStatus

HtmlTable(headers, trs) == [headers |-> headers, rows |-> trs]
HtmlDocs ==
  { << >>,
    << HtmlTable(<<"server", "version">>, << <<Text("icecast"), Digits(2)>> >>) >>,
    << HtmlTable(<<"mount point", "listeners", "peak listeners">>,
                 << <<Text("/tower1"), Digits(MaxListeners), Digits(MaxListeners)>>,
                    <<Text("tower2"), Text("n/a")>>,
                    <<Text("")>> >>) >> }

HtmlOutcomes ==
  { [kind |-> k, doc |-> << >>] : k \in {"neterr", "httperr"} }
  \cup { [kind |-> "ok", doc |-> d] : d \in HtmlDocs }

\* the part of fetch_icecast_status_html after the request was sent
fetch_icecast_status_html(outcome) ==
  IF outcome.kind = "ok" THEN Some(parse_icecast_html(outcome.doc)) ELSE NoStatus

\* a fallback test that forgets the empty mapping
NeedsFallback_noneOnly(st) == ~st.some

\* if not status or not status.get("mounts")
NeedsFallback(st) == ~st.some \/ DOMAIN st.mounts = {}

\* ----------------------------- aggregation ------------------------------
\* a total that follows the history flag
CountsTowardTotal_history(config) == config.include_in_history

\* if config["include_in_charts"]: result["total"] += listeners
CountsTowardTotal(config) == config.include_in_charts

\* mount_data.get("listeners", 0)
ListenersOf(mounts, mountpoint) ==
  IF mountpoint \in DOMAIN mounts THEN mounts[mountpoint].listeners ELSE IntV(0)

TowerEntry(config, mounts) ==
  [id |-> config.id, label |-> config.label, mountpoint |-> config.mountpoint,
   listeners |-> ListenersOf(mounts, config.mountpoint),
   include_in_charts |-> config.include_in_charts,
   include_in_history |-> config.include_in_history]

RECURSIVE TotalOf(_, _, _)
TotalOf(reg, towers, i) ==
  IF i > Len(reg) THEN 0
  ELSE (IF CountsTowardTotal(reg[i]) THEN towers[i].listeners.n ELSE 0)
       + TotalOf(reg, towers, i + 1)

\* fetch_listener_data from "Map to tracked towers" on
MapToTowers(reg, st) ==
  LET towers == [i \in DOMAIN reg |-> TowerEntry(reg[i], st.mounts)]
  IN [towers |-> towers, total |-> TotalOf(reg, towers, 1)]

NoData == [towers |-> << >>, total |-> 0]

RECURSIVE PutLabels(_, _)
PutLabels(towers, rec) ==
  IF towers = << >> THEN rec
  ELSE PutLabels(Tail(towers),
                 IF Head(towers).include_in_history
                 THEN Put(rec, Head(towers).label, Head(towers).listeners)
                 ELSE rec)

\* main: "Build record for history"
BuildRecord(d, ts_ms, iso) ==
  LET base == [k \in {"timestamp_iso", "timestamp_ms"} |->
                 IF k = "timestamp_iso" THEN IsoText(iso) ELSE IntV(ts_ms)]
  IN Put(PutLabels(d.towers, base), "Total", IntV(d.total))

RECURSIVE HistoryLabels(_)
HistoryLabels(towers) ==
  IF towers = << >> THEN << >>
  ELSE (IF Head(towers).include_in_history THEN <<Head(towers).label>> ELSE << >>)
       \o HistoryLabels(Tail(towers))

Names(towers)      == HistoryLabels(towers) \o <<"Total">>
Fieldnames(towers) == <<"timestamp_iso", "timestamp_ms">> \o Names(towers)

\* ---------------------------- history store -----------------------------
RestKey == "<restkey>"
CsvFile(header, lines) == [exists |-> TRUE, header |-> header, rows |-> lines]
NoFile == [exists |-> FALSE, header |-> << >>, rows |-> << >>]

\* csv.DictReader: one dict per line, keyed by the header of the file
RowDict(header, cells) ==
  [k \in Range(header) \cup (IF Len(cells) > Len(header) THEN {RestKey} ELSE {}) |->
     IF k = RestKey THEN RestList
     ELSE LET i == CHOOSE j \in DOMAIN header : header[j] = k
          IN IF i <= Len(cells) THEN cells[i] ELSE None]

\* "Coerce numeric fields"
Coerce(row) ==
  [k \in DOMAIN row |->
     IF k \in {"timestamp_iso", "timestamp_ms"} THEN row[k]
     ELSE IF CanInt(row[k]) THEN IntV(row[k].n) ELSE row[k]]

\* row["timestamp_ms"] = int(row["timestamp_ms"]) raises
RowFails(row) == "timestamp_ms" \notin DOMAIN row \/ ~CanInt(row["timestamp_ms"])

\* the rows gathered until the loop ends or a row raises
RECURSIVE LoadRows(_, _, _)
LoadRows(header, lines, acc) ==
  IF lines = << >> THEN acc
  ELSE LET row == Coerce(RowDict(header, Head(lines)))
       IN IF RowFails(row) THEN acc
          ELSE LoadRows(header, Tail(lines),
                        Append(acc, [row EXCEPT !["timestamp_ms"] = IntV(row["timestamp_ms"].n)]))

load_history(f) ==
  IF ~f.exists \/ f.header = << >> THEN << >>
  ELSE LoadRows(f.header, f.rows, << >>)

\* csv.DictWriter.writerow: ValueError on a key outside fieldnames
HasExtraKeys(row, fieldnames) == ~(DOMAIN row \subseteq Range(fieldnames))
CsvLine(row, fieldnames) ==
  [i \in DOMAIN fieldnames |->
     IF fieldnames[i] \in DOMAIN row THEN CsvStr(row[fieldnames[i]]) ELSE Text("")]

\* ---------------------------- series builder -----------------------------
RECURSIVE PointsOf(_, _)
PointsOf(rs, name) ==
  IF rs = << >> THEN << >>
  ELSE LET row == Head(rs)
       IN (IF name \in DOMAIN row /\ CanInt(row[name])
           THEN << <<row["timestamp_ms"].n, row[name].n>> >> ELSE << >>)
          \o PointsOf(Tail(rs), name)

\* the payload "series" list: one entry per name, in the order of names
build_series_map(rs, names) ==
  [i \in DOMAIN names |-> [name |-> names[i], points |-> PointsOf(rs, names[i])]]

WindowTicks == 1
RECURSIVE ClipPoints(_, _)
ClipPoints(pts, cutoff) ==
  IF pts = << >> THEN << >>
  ELSE (IF Head(pts)[1] >= cutoff THEN <<Head(pts)>> ELSE << >>) \o ClipPoints(Tail(pts), cutoff)

Clipped(series, cutoff) ==
  [i \in DOMAIN series |-> [name |-> series[i].name, points |-> ClipPoints(series[i].points, cutoff)]]

\* --------------------------- archive partitioner ------------------------
row_year(row) ==
  IF "timestamp_iso" \in DOMAIN row /\ row["timestamp_iso"].t = "iso"
  THEN YearOf(row["timestamp_iso"].n)
  ELSE YearOf(row["timestamp_ms"].n)

row_month_key(row) == MonthKey(row["timestamp_ms"].n)

\* the key write_archives files a row under, per kind of bucket
BucketKey(kind, row) == IF kind = "year" THEN row_year(row) ELSE row_month_key(row)

\* keys of by_year / by_month in insertion order
RECURSIVE KeysInOrder(_, _, _)
KeysInOrder(rs, kind, seen) ==
  IF rs = << >> THEN seen
  ELSE KeysInOrder(Tail(rs), kind,
                   IF BucketKey(kind, Head(rs)) \in Range(seen) THEN seen
                   ELSE Append(seen, BucketKey(kind, Head(rs))))

\* by_year[k] / by_month[k]
RECURSIVE Bucket(_, _, _)
Bucket(rs, kind, k) ==
  IF rs = << >> THEN << >>
  ELSE (IF BucketKey(kind, Head(rs)) = k THEN <<Head(rs)>> ELSE << >>) \o Bucket(Tail(rs), kind, k)

YearKeys(rs)  == KeysInOrder(rs, "year", << >>)
MonthKeys(rs) == KeysInOrder(rs, "month", << >>)

\* a sort of the years that puts the latest first
RECURSIVE SortedYears_descending(_)
SortedYears_descending(S) ==
  IF S = {} THEN << >>
  ELSE LET m == CHOOSE x \in S : \A y \in S : x >= y
       IN <<m>> \o SortedYears_descending(S \ {m})

\* sorted(list(years_set))
RECURSIVE SortedYears(_)
SortedYears(S) ==
  IF S = {} THEN << >>
  ELSE LET m == CHOOSE x \in S : \A y \in S : x <= y
       IN <<m>> \o SortedYears(S \ {m})

MonthLE(a, b) == a[1] < b[1] \/ (a[1] = b[1] /\ a[2] <= b[2])
RECURSIVE SortedMonths(_)
SortedMonths(S) ==
  IF S = {} THEN << >>
  ELSE LET m == CHOOSE x \in S : \A y \in S : MonthLE(x, y)
       IN <<m>> \o SortedMonths(S \ {m})

\* ------------------------------- state ----------------------------------
VARIABLES
  registry,     \* TRACKED_MOUNTPOINTS
  HAS_BS4,      \* whether BeautifulSoup could be imported
  HISTORY_CSV,  \* the history file on disk
  stored,       \* the history file as it was when the process started
  clock,        \* the wall clock, in ticks
  pc,           \* position of main
  net,          \* the status requests sent so far, in order
  jsonResult,   \* what fetch_icecast_status_json returned
  status,       \* fetch_listener_data's status
  data,         \* what fetch_listener_data returned
  record,       \* main's record
  rows,         \* main's rows
  todo,         \* what the running loop has still to visit
  out,          \* the artifacts written and skipped by this run, with contents
  faults,       \* file-system errors so far
  exc,          \* where an uncaught exception ended the process ("" if none)
  saveFailed,   \* save_history logged "[error] Failed to save history"
  document,     \* the decoded document handed to a parser run on its own
  parsed        \* the mounts that parser returned

vars == <<registry, HAS_BS4, HISTORY_CSV, stored, clock, pc, net, jsonResult, status,
          data, record, rows, todo, out, faults, exc, saveFailed, document, parsed>>

\* what no step of main changes
config == <<registry, HAS_BS4, stored, document, parsed>>

\* ------------------------- the stored history ----------------------------
RowKinds == {"good", "badts", "noiso", "skew"}

StoredLine(kind, header, ts) ==
  LET cols == [i \in 1..(Len(header) - 2) |-> Digits(0)]
  IN CASE kind = "good"  -> <<IsoText(ts), Digits(ts)>> \o cols
       [] kind = "badts" -> <<IsoText(ts), Text("n/a")>> \o cols
       [] kind = "noiso" -> <<Text(""), Digits(ts)>> \o cols
       [] kind = "skew"  -> <<IsoText(ts + MonthsPerYear * TicksPerMonth), Digits(ts)>> \o cols

\* the header an earlier run wrote: the current one, or one with a column
\* of a source that is no longer tracked
StoredHeaders(reg) == { Fieldnames(reg), Fieldnames(reg) \o <<"Tower 3">> }

\* the file left by earlier runs: none, rows of any kind under the current
\* header, or sound rows under the header of an earlier registry
StoredFiles(reg) ==
  {NoFile} \cup
  UNION { { CsvFile(h, [i \in 1..Len(kinds) |-> StoredLine(kinds[i], h, i - 1)]) :
              kinds \in UNION { [1..n -> IF h = Fieldnames(reg) THEN RowKinds ELSE {"good"}]
                                  : n \in 0..MaxStored } }
          : h \in StoredHeaders(reg) }

StartClock == MonthsPerYear * TicksPerMonth - 1

NoOut == [written |-> {}, skipped |-> {}, data_all |-> << >>, data_24h |-> << >>,
          yearly |-> EmptyMap, monthly |-> EmptyMap,
          yearly_index |-> << >>, monthly_index |-> << >>]

Init ==
  /\ registry \in Registries
  /\ HAS_BS4 \in BOOLEAN
  /\ HISTORY_CSV \in StoredFiles(registry)
  /\ stored = HISTORY_CSV
  /\ clock = StartClock
  /\ pc = "fetch_json"
  /\ net = << >>
  /\ jsonResult = NoStatus
  /\ status = NoStatus
  /\ data = NoData
  /\ record = EmptyMap
  /\ rows = << >>
  /\ todo = << >>
  /\ out = NoOut
  /\ faults = 0
  /\ exc = ""
  /\ saveFailed = FALSE
  /\ document = JsonDoc("absent", << >>)
  /\ parsed = EmptyMap

\* ------------------------------ fetch ------------------------------------
\* fetch_listener_data: status = fetch_icecast_status_json()
FetchJson ==
  /\ pc = "fetch_json"
  /\ \E outcome \in JsonOutcomes : jsonResult' = fetch_icecast_status_json(outcome)
  /\ net' = Append(net, "json")
  /\ status' = jsonResult'
  /\ pc' = "json_done"
  /\ UNCHANGED <<config, HISTORY_CSV, clock, data, record, rows, todo, out, faults, exc, saveFailed>>

\* fetch_listener_data: the fallback, taken or not
FetchHtml ==
  /\ pc = "json_done"
  /\ \/ /\ NeedsFallback(status)
        /\ HAS_BS4
        /\ \E outcome \in HtmlOutcomes : status' = fetch_icecast_status_html(outcome)
        /\ net' = Append(net, "html")
     \/ /\ NeedsFallback(status)
        /\ ~HAS_BS4
        /\ status' = NoStatus
        /\ net' = net
     \/ /\ ~NeedsFallback(status)
        /\ UNCHANGED <<status, net>>
  /\ pc' = "aggregate"
  /\ UNCHANGED <<config, HISTORY_CSV, clock, jsonResult, data, record, rows, todo, out,
                 faults, exc, saveFailed>>

\* the rest of fetch_listener_data, and main up to the record
Aggregate ==
  /\ pc = "aggregate"
  /\ status' = IF status.some THEN status ELSE Some(EmptyMap)
  /\ data' = MapToTowers(registry, status')
  /\ \E d \in 0..MaxDrift :
       /\ clock' = clock + d
       /\ record' = BuildRecord(data', clock, clock')
  /\ pc' = "load"
  /\ UNCHANGED <<config, HISTORY_CSV, net, jsonResult, rows, todo, out, faults, exc, saveFailed>>

\* main: rows = load_history(); rows.append(record)
LoadHistory ==
  /\ pc = "load"
  /\ rows' = Append(load_history(HISTORY_CSV), record)
  /\ pc' = "save_open"
  /\ UNCHANGED <<config, HISTORY_CSV, clock, net, jsonResult, status, data, record, todo, out,
                 faults, exc, saveFailed>>

\* ---------------------------- save_history ------------------------------
CanFault == faults < MaxFaults

\* open(HISTORY_CSV, "w") truncates the file
SaveOpen ==
  /\ pc = "save_open"
  /\ \/ /\ HISTORY_CSV' = CsvFile(<< >>, << >>)
        /\ pc' = "save_header"
        /\ UNCHANGED <<faults, saveFailed>>
     \/ /\ CanFault
        /\ faults' = faults + 1
        /\ saveFailed' = TRUE
        /\ pc' = "mk_site"
        /\ UNCHANGED HISTORY_CSV
  /\ UNCHANGED <<config, clock, net, jsonResult, status, data, record, rows, todo, out, exc>>

SaveHeader ==
  /\ pc = "save_header"
  /\ \/ /\ HISTORY_CSV' = [HISTORY_CSV EXCEPT !.header = Fieldnames(data.towers)]
        /\ todo' = rows
        /\ pc' = "save_rows"
        /\ UNCHANGED <<faults, saveFailed>>
     \/ /\ CanFault
        /\ faults' = faults + 1
        /\ saveFailed' = TRUE
        /\ pc' = "mk_site"
        /\ UNCHANGED <<HISTORY_CSV, todo>>
  /\ UNCHANGED <<config, clock, net, jsonResult, status, data, record, rows, out, exc>>

\* writer.writerow(row) for the next row; the file is closed after the last
SaveRow ==
  /\ pc = "save_rows"
  /\ todo # << >>
  /\ LET row == Head(todo)
         fieldnames == Fieldnames(data.towers)
     IN \/ /\ ~HasExtraKeys(row, fieldnames)
           /\ HISTORY_CSV' = [HISTORY_CSV EXCEPT !.rows = Append(@, CsvLine(row, fieldnames))]
           /\ todo' = Tail(todo)
           /\ pc' = IF Tail(todo) = << >> THEN "mk_site" ELSE "save_rows"
           /\ UNCHANGED <<faults, saveFailed>>
        \/ /\ HasExtraKeys(row, fieldnames)
           /\ saveFailed' = TRUE
           /\ todo' = << >>
           /\ pc' = "mk_site"
           /\ UNCHANGED <<HISTORY_CSV, faults>>
        \/ /\ CanFault
           /\ faults' = faults + 1
           /\ saveFailed' = TRUE
           /\ todo' = << >>
           /\ pc' = "mk_site"
           /\ UNCHANGED HISTORY_CSV
  /\ UNCHANGED <<config, clock, net, jsonResult, status, data, record, rows, out, exc>>

\* --------------------------- write_json_outputs --------------------------
Wrote(o, key)   == [o EXCEPT !.written = @ \cup {key}]
Skipped(o, key) == [o EXCEPT !.skipped = @ \cup {key}]

\* an exception nobody catches ends the process with a traceback
Raise(where) ==
  /\ CanFault
  /\ faults' = faults + 1
  /\ exc' = where
  /\ pc' = "exited"
  /\ UNCHANGED <<out, todo>>

\* os.makedirs(SITE_DATA_DIR, exist_ok=True)
MakeSiteDir ==
  /\ pc = "mk_site"
  /\ \/ /\ pc' = "data_all"
        /\ UNCHANGED <<out, todo, faults, exc>>
     \/ Raise("makedirs")
  /\ UNCHANGED <<config, HISTORY_CSV, clock, net, jsonResult, status, data, record, rows, saveFailed>>

WriteDataAll ==
  /\ pc = "data_all"
  /\ \/ /\ out' = [Wrote(out, <<"data_all">>) EXCEPT
                     !.data_all = build_series_map(rows, Names(data.towers))]
        /\ pc' = "data_24h"
        /\ UNCHANGED <<todo, faults, exc>>
     \/ Raise("data_all")
  /\ UNCHANGED <<config, HISTORY_CSV, clock, net, jsonResult, status, data, record, rows, saveFailed>>

WriteData24h ==
  /\ pc = "data_24h"
  /\ \/ /\ out' = [Wrote(out, <<"data_24h">>) EXCEPT
                     !.data_24h = Clipped(build_series_map(rows, Names(data.towers)),
                                          clock - WindowTicks)]
        /\ pc' = "mk_archive"
        /\ UNCHANGED <<todo, faults, exc>>
     \/ Raise("data_24h")
  /\ UNCHANGED <<config, HISTORY_CSV, clock, net, jsonResult, status, data, record, rows, saveFailed>>

\* ------------------------------ write_archives ---------------------------
\* os.makedirs of the two archive directories, then the bucketing loop
MakeArchiveDirs ==
  /\ pc = "mk_archive"
  /\ \/ /\ todo' = YearKeys(rows)
        /\ pc' = "yearly"
        /\ UNCHANGED <<out, faults, exc>>
     \/ Raise("makedirs")
  /\ UNCHANGED <<config, HISTORY_CSV, clock, net, jsonResult, status, data, record, rows, saveFailed>>

WriteYearly ==
  /\ pc = "yearly"
  /\ todo # << >>
  /\ LET year == Head(todo)
         payload == build_series_map(Bucket(rows, "year", year), Names(data.towers))
     IN \/ /\ out' = [Wrote(out, <<"yearly", year>>) EXCEPT !.yearly = Put(@, year, payload)]
           /\ UNCHANGED faults
        \/ /\ CanFault
           /\ faults' = faults + 1
           /\ out' = Skipped(out, <<"yearly", year>>)
  /\ IF Tail(todo) = << >>
     THEN pc' = "monthly" /\ todo' = MonthKeys(rows)
     ELSE pc' = "yearly" /\ todo' = Tail(todo)
  /\ UNCHANGED <<config, HISTORY_CSV, clock, net, jsonResult, status, data, record, rows,
                 exc, saveFailed>>

WriteMonthly ==
  /\ pc = "monthly"
  /\ todo # << >>
  /\ LET month_key == Head(todo)
         payload == build_series_map(Bucket(rows, "month", month_key), Names(data.towers))
     IN \/ /\ out' = [Wrote(out, <<"monthly", month_key[1], month_key[2]>>) EXCEPT
                        !.monthly = Put(@, month_key, payload)]
           /\ UNCHANGED faults
        \/ /\ CanFault
           /\ faults' = faults + 1
           /\ out' = Skipped(out, <<"monthly", month_key[1], month_key[2]>>)
  /\ IF Tail(todo) = << >>
     THEN pc' = "yearly_index" /\ todo' = << >>
     ELSE pc' = "monthly" /\ todo' = Tail(todo)
  /\ UNCHANGED <<config, HISTORY_CSV, clock, net, jsonResult, status, data, record, rows,
                 exc, saveFailed>>

\* the two indexes share one try block
WriteYearlyIndex ==
  /\ pc = "yearly_index"
  /\ \/ /\ out' = [Wrote(out, <<"yearly_index">>) EXCEPT
                     !.yearly_index = SortedYears(Range(YearKeys(rows)))]
        /\ pc' = "monthly_index"
        /\ UNCHANGED faults
     \/ /\ CanFault
        /\ faults' = faults + 1
        /\ out' = Skipped(out, <<"yearly_index">>)
        /\ pc' = "done"
  /\ UNCHANGED <<config, HISTORY_CSV, clock, net, jsonResult, status, data, record, rows, todo,
                 exc, saveFailed>>

WriteMonthlyIndex ==
  /\ pc = "monthly_index"
  /\ \/ /\ out' = [Wrote(out, <<"monthly_index">>) EXCEPT
                     !.monthly_index = SortedMonths(Range(MonthKeys(rows)))]
        /\ UNCHANGED faults
     \/ /\ CanFault
        /\ faults' = faults + 1
        /\ out' = Skipped(out, <<"monthly_index">>)
  /\ pc' = "done"
  /\ UNCHANGED <<config, HISTORY_CSV, clock, net, jsonResult, status, data, record, rows, todo,
                 exc, saveFailed>>

Next ==
  \/ FetchJson
  \/ FetchHtml
  \/ Aggregate
  \/ LoadHistory
  \/ SaveOpen
  \/ SaveHeader
  \/ SaveRow
  \/ MakeSiteDir
  \/ WriteDataAll
  \/ WriteData24h
  \/ MakeArchiveDirs
  \/ WriteYearly
  \/ WriteMonthly
  \/ WriteYearlyIndex
  \/ WriteMonthlyIndex

Spec == Init /\ [][Next]_vars

\* ------------------------- the parsers on their own ---------------------
MaxSources == 2   \* source objects of a status document
MaxHeaders == 3   \* header cells of a status table

\* the source objects a status document may hold
SourcePool ==
  {NotADict} \cup
  { Src(url, mount, listeners, None) :
      url \in {None, Text("http://host:8000/tower1"), Text("http://host:8000"), IntV(8000)},
      mount \in {None, Text("/tower1"), Text("/tower2")},
      listeners \in {None, IntV(1), Digits(2), Inf} }

ParserJsonDocs ==
  { JsonDoc("absent", << >>), JsonDoc("other", << >>) }
  \cup { JsonDoc("dict", <<src>>) : src \in SourcePool }
  \cup { JsonDoc("list", srcs) : srcs \in UNION { [1..n -> SourcePool] : n \in 0..MaxSources } }

\* main is not running
Idle ==
  /\ registry = RegistryOfCode
  /\ HAS_BS4 = TRUE
  /\ HISTORY_CSV = NoFile
  /\ stored = NoFile
  /\ clock = StartClock
  /\ net = << >>
  /\ jsonResult = NoStatus
  /\ status = NoStatus
  /\ data = NoData
  /\ record = EmptyMap
  /\ rows = << >>
  /\ todo = << >>
  /\ out = NoOut
  /\ faults = 0
  /\ exc = ""
  /\ saveFailed = FALSE

mainVars == <<registry, HAS_BS4, HISTORY_CSV, stored, clock, net, jsonResult, status,
              data, record, rows, todo, out, faults, exc, saveFailed>>

InitJsonParser ==
  /\ Idle
  /\ pc = "json_document"
  /\ document \in ParserJsonDocs
  /\ parsed = EmptyMap

\* parse_icecast_json(data)
ParseJson ==
  /\ pc = "json_document"
  /\ parsed' = parse_icecast_json(document)
  /\ pc' = "json_parsed"
  /\ UNCHANGED <<mainVars, document>>

\* the header texts of a status table
HeaderPool == {"Mount Point", "mount", "Listeners", "LISTENERS", "Peak Listeners",
               "Current Listeners", "Genre"}

\* one table with the given headers and one data row whose cell in column
\* i reads i, so that the mapping tells which columns were read
ParserHtmlDocs ==
  { << HtmlTable(headers, << [i \in DOMAIN headers |-> Digits(i)] >>) >> :
      headers \in UNION { [1..n -> HeaderPool] : n \in 0..MaxHeaders } }

InitHtmlParser ==
  /\ Idle
  /\ pc = "html_document"
  /\ document \in ParserHtmlDocs
  /\ parsed = EmptyMap

\* parse_icecast_html(html), BeautifulSoup being available
ParseHtml ==
  /\ pc = "html_document"
  /\ parsed' = parse_icecast_html(document)
  /\ pc' = "html_parsed"
  /\ UNCHANGED <<mainVars, document>>

InitParser == InitJsonParser \/ InitHtmlParser
NextParser == ParseJson \/ ParseHtml
ParserSpec == InitParser /\ [][NextParser]_vars

\* ------------------------------ properties ------------------------------
FetchPcs  == {"fetch_json", "json_done", "aggregate"}
SavePcs   == {"save_open", "save_header", "save_rows"}
AfterAggregate == pc \notin FetchPcs
AfterLoad      == pc \notin FetchPcs \cup {"load"}
AfterSave      == pc \notin FetchPcs \cup {"load"} \cup SavePcs
Terminated     == pc \in {"done", "exited"}

\* the line save_history writes for the record of this run
RecordLine == CsvLine(record, Fieldnames(data.towers))

\* C1: after a cycle the history file holds the rows it held before, in
\* their order and unchanged, followed by exactly one new record, whatever
\* the stored rows are (no file-system error involved).
C1_HistoryGrowsByOne ==
  (pc = "done" /\ faults = 0 /\ registry # << >>) =>
     /\ HISTORY_CSV.exists
     /\ HISTORY_CSV.rows = stored.rows \o <<RecordLine>>

\* the JSON attempt failed or returned no mount
JsonUninformative == ~jsonResult.some \/ Cardinality(DOMAIN jsonResult.mounts) = 0

\* C2 (as claimed): the HTML request is sent exactly when the JSON attempt
\* failed or returned zero mounts.
C2_HtmlExactlyWhenJsonUninformative ==
  AfterAggregate => (("html" \in Range(net)) <=> JsonUninformative)

\* C2 (amended): the HTML request is sent only after the JSON attempt has
\* finished, and exactly when BeautifulSoup is available and the JSON
\* attempt failed or returned zero mounts; with at least one JSON mount no
\* HTML request is sent and the JSON mapping is the one used.
C2_HtmlFallbackNeedsParser ==
  /\ pc = "fetch_json" => net = << >>
  /\ pc = "json_done" => net = <<"json">>
  /\ pc \notin {"fetch_json", "json_done"} =>
        /\ net \in {<<"json">>, <<"json", "html">>}
        /\ ("html" \in Range(net)) <=> (HAS_BS4 /\ JsonUninformative)
        /\ ~JsonUninformative => status = jsonResult

C2_Witness ==
  /\ pc = "done"
  /\ HAS_BS4
  /\ jsonResult.some
  /\ DOMAIN jsonResult.mounts = {}
  /\ net = <<"json", "html">>
  /\ DOMAIN status.mounts # {}

\* C3: whatever the two attempts yield, no exception leaves the fetch, and
\* the record appended holds an integer under every label kept in the
\* history, 0 for every source whose mountpoint is not in the mapping.
C3_RecordAlwaysProduced ==
  /\ pc = "exited" => (exc \in {"makedirs", "data_all", "data_24h"} /\ rows # << >>)
  /\ AfterAggregate =>
       \A i \in DOMAIN registry :
          registry[i].include_in_history =>
             /\ registry[i].label \in DOMAIN record
             /\ record[registry[i].label].t = "int"
             /\ registry[i].mountpoint \notin DOMAIN status.mounts
                   => record[registry[i].label] = IntV(0)
  /\ AfterLoad => (rows # << >> /\ rows[Len(rows)] = record)
  /\ (AfterSave /\ ~saveFailed) =>
       (HISTORY_CSV.rows # << >> /\ HISTORY_CSV.rows[Len(HISTORY_CSV.rows)] = RecordLine)

C3_Witness ==
  /\ pc = "done"
  /\ registry = RegistryOfCode
  /\ ~jsonResult.some
  /\ net = <<"json", "html">>
  /\ DOMAIN status.mounts = {}
  /\ record["Tower 1"] = IntV(0)
  /\ record["Tower 2"] = IntV(0)
  /\ HISTORY_CSV.rows # << >>
  /\ HISTORY_CSV.rows[Len(HISTORY_CSV.rows)] = RecordLine

\* listeners of a source as the mapping reports them, 0 when it is missing
Reported(i) ==
  IF registry[i].mountpoint \in DOMAIN status.mounts
  THEN status.mounts[registry[i].mountpoint].listeners.n
  ELSE 0

RECURSIVE SumReported(_)
SumReported(I) ==
  IF I = {} THEN 0
  ELSE LET i == CHOOSE j \in I : TRUE IN Reported(i) + SumReported(I \ {i})

\* C4: Total is the sum of the listeners of exactly the sources whose
\* include_in_charts flag is true, a missing source counting 0; a source
\* whose flag is false does not change it.
C4_TotalSumsChartedSources ==
  AfterAggregate =>
    /\ "Total" \in DOMAIN record
    /\ record["Total"] = IntV(SumReported({i \in DOMAIN registry : registry[i].include_in_charts}))

C4_Witness ==
  /\ pc = "done"
  /\ \E i \in DOMAIN registry :
        /\ ~registry[i].include_in_charts
        /\ registry[i].include_in_history
        /\ Reported(i) > 0
  /\ record["Total"] = IntV(0)

\* the output files of a run, by key
ArchiveKeys ==
  { <<"yearly", y>> : y \in Range(YearKeys(rows)) }
  \cup { <<"monthly", m[1], m[2]>> : m \in Range(MonthKeys(rows)) }
OutputKeys ==
  { <<"data_all">>, <<"data_24h">>, <<"yearly_index">>, <<"monthly_index">> } \cup ArchiveKeys

\* C5: a failing write skips that file alone; every other output file of
\* the cycle is still written.
C5_OutputsIsolated ==
  (Terminated /\ exc # "makedirs" /\ registry # << >>) =>
     /\ \A k \in OutputKeys : k \in out.written \/ k \in out.skipped \/ k = <<exc>>
     /\ saveFailed \/ HISTORY_CSV.rows # stored.rows

\* C6: with an empty registry the cycle aborts before any request is sent
\* and before any file is written.
C6_EmptyRegistryAborts ==
  registry = << >> => (net = << >> /\ HISTORY_CSV = stored /\ out.written = {})

\* C7: the process never fails after an output was committed.
C7_AllOrNothing ==
  (pc = "exited" /\ registry # << >>) => (HISTORY_CSV = stored /\ out.written = {})

\* the file save_history is writing, complete
NewFile == CsvFile(Fieldnames(data.towers),
                   [i \in DOMAIN rows |-> CsvLine(rows[i], Fieldnames(data.towers))])

\* C8: at every step the history file is the complete previous one or the
\* complete new one.
C8_HistoryReplacedAtomically ==
  registry # << >> => (HISTORY_CSV = stored \/ (AfterLoad /\ HISTORY_CSV = NewFile))

PointSet(series, i) == IF i \in DOMAIN series THEN Range(series[i].points) ELSE {}

\* C9: for every year the points of the yearly archive are, per series,
\* the union of the points of the monthly archives of that year.
C9_YearlyIsUnionOfMonthly ==
  (pc \in {"yearly_index", "monthly_index", "done"} /\ faults = 0 /\ registry # << >>) =>
     \A y \in DOMAIN out.yearly :
        \A i \in DOMAIN out.yearly[y] :
           PointSet(out.yearly[y], i) =
           UNION { PointSet(out.monthly[m], i) : m \in {k \in DOMAIN out.monthly : k[1] = y} }

\* the well-formed rows of a file, in file order
RECURSIVE WellFormedRows(_, _)
WellFormedRows(header, lines) ==
  IF lines = << >> THEN << >>
  ELSE LET row == Coerce(RowDict(header, Head(lines)))
       IN (IF "timestamp_ms" \in DOMAIN row /\ row["timestamp_ms"].t \in {"int", "digits"}
           THEN <<[row EXCEPT !["timestamp_ms"] = IntV(row["timestamp_ms"].n)]>>
           ELSE << >>)
          \o WellFormedRows(header, Tail(lines))

\* C10: a row whose timestamp_ms does not parse is dropped alone; every
\* well-formed row before and after it is loaded, in file order.
C10_BadRowDroppedAlone ==
  (AfterLoad /\ registry # << >>) =>
     SubSeq(rows, 1, Len(rows) - 1) = WellFormedRows(stored.header, stored.rows)

\* the source objects parse_icecast_json is to visit
SourcesOf(doc) ==
  CASE doc.kind = "dict" -> <<Head(doc.sources)>>
    [] doc.kind = "list" -> doc.sources
    [] OTHER             -> << >>

\* the mountpoint a source object resolves to: the path of its listenurl,
\* else its mount, "" when it has neither
ResolvedMountpoint(source) ==
  IF ~source.isdict THEN ""
  ELSE IF source.listenurl.t = "text" /\ UrlPath(source.listenurl.s) # ""
       THEN UrlPath(source.listenurl.s)
  ELSE IF source.mount.t = "text" THEN source.mount.s
  ELSE ""

\* the metric of a source object: integers where they parse, 0 listeners
\* and no peak where they do not
ResolvedMetric(source) ==
  Metric(ResolvedMountpoint(source),
         IF CanInt(source.listeners) THEN IntV(source.listeners.n) ELSE IntV(0),
         IF CanInt(source.listener_peak) THEN IntV(source.listener_peak.n) ELSE None)

\* C11: the keys of the mapping parse_icecast_json returns are the
\* resolvable mountpoints of the source objects, and each key maps to the
\* metric of the last source object that has this mountpoint.
C11_KeysAreResolvableMountpoints ==
  pc = "json_parsed" =>
    LET srcs == SourcesOf(document)
    IN /\ DOMAIN parsed = {ResolvedMountpoint(srcs[i]) : i \in DOMAIN srcs} \ {""}
       /\ \A k \in DOMAIN parsed :
            \E i \in DOMAIN srcs :
               /\ ResolvedMountpoint(srcs[i]) = k
               /\ \A j \in DOMAIN srcs : ResolvedMountpoint(srcs[j]) = k => j <= i
               /\ parsed[k] = ResolvedMetric(srcs[i])

\* the lowercased headers of the table under parse
TableHeaders == IF document = << >> THEN << >>
                ELSE [i \in DOMAIN document[1].headers |-> Lower(document[1].headers[i])]
MountColumns     == {i \in DOMAIN TableHeaders : ContainsMount(TableHeaders[i])}
ListenersColumns == {i \in DOMAIN TableHeaders : TableHeaders[i] = "listeners"}
FirstOf(S) == CHOOSE i \in S : \A j \in S : i <= j

\* C12: a table is a candidate exactly when a header contains "mount" and
\* a header equals "listeners"; the mount column read is the first header
\* containing "mount", the listeners column one that equals "listeners".
C12_FirstMountColumnIsRead ==
  pc = "html_parsed" =>
    IF MountColumns = {} \/ ListenersColumns = {}
    THEN parsed = EmptyMap
    ELSE LET key == "/" \o ToString(FirstOf(MountColumns))
         IN /\ key \in DOMAIN parsed
            /\ parsed[key].listeners.n \in ListenersColumns

\* the distinct keys write_archives files the rows under
YearsOfRows  == {row_year(rows[i]) : i \in DOMAIN rows}
MonthsOfRows == {row_month_key(rows[i]) : i \in DOMAIN rows}

YearsAscend(q)  == \A i, j \in DOMAIN q : i < j => q[i] < q[j]
MonthsAscend(q) ==
  \A i, j \in DOMAIN q :
     i < j => (q[i][1] < q[j][1] \/ (q[i][1] = q[j][1] /\ q[i][2] < q[j][2]))

\* the archive of a key was written by this run, with the rows of its bucket
YearlyWritten(y) ==
  /\ <<"yearly", y>> \in out.written
  /\ y \in DOMAIN out.yearly
  /\ out.yearly[y] = build_series_map(Bucket(rows, "year", y), Names(data.towers))
MonthlyWritten(m) ==
  /\ <<"monthly", m[1], m[2]>> \in out.written
  /\ m \in DOMAIN out.monthly
  /\ out.monthly[m] = build_series_map(Bucket(rows, "month", m), Names(data.towers))

\* C13 (as claimed): after write_archives has written the indexes, each is
\* the ascending list of the distinct keys of the rows, and every key it
\* lists names an archive written in this run with the content of its bucket.
C13_IndexedArchivesWereWritten ==
  (pc = "done" /\ registry # << >>
     /\ {<<"yearly_index">>, <<"monthly_index">>} \subseteq out.written) =>
     /\ YearsAscend(out.yearly_index)
     /\ Range(out.yearly_index) = YearsOfRows
     /\ MonthsAscend(out.monthly_index)
     /\ Range(out.monthly_index) = MonthsOfRows
     /\ \A y \in Range(out.yearly_index) : YearlyWritten(y)
     /\ \A m \in Range(out.monthly_index) : MonthlyWritten(m)

\* C13 (amended): each index that is written is the ascending list of the
\* distinct keys of the rows and is written after every bucket was
\* attempted; every key it lists names an archive written in this run with
\* the content of its bucket, or one whose write failed and was skipped.
C13_IndexesListAttemptedBuckets ==
  /\ <<"yearly_index">> \in out.written =>
        /\ YearsAscend(out.yearly_index)
        /\ Range(out.yearly_index) = YearsOfRows
        /\ ArchiveKeys \subseteq out.written \cup out.skipped
        /\ \A y \in Range(out.yearly_index) :
              YearlyWritten(y) \/ <<"yearly", y>> \in out.skipped
  /\ <<"monthly_index">> \in out.written =>
        /\ ArchiveKeys \subseteq out.written \cup out.skipped
        /\ MonthsAscend(out.monthly_index)
        /\ Range(out.monthly_index) = MonthsOfRows
        /\ \A m \in Range(out.monthly_index) :
              MonthlyWritten(m) \/ <<"monthly", m[1], m[2]>> \in out.skipped
  /\ <<"yearly_index">> \notin out.written => out.yearly_index = << >>
  /\ <<"monthly_index">> \notin out.written => out.monthly_index = << >>

C13_Witness ==
  /\ pc = "done"
  /\ <<"yearly_index">> \in out.written
  /\ <<"monthly_index">> \in out.written
  /\ Len(out.yearly_index) = 2
  /\ Len(out.monthly_index) >= 2
  /\ \A y \in Range(out.yearly_index) : YearlyWritten(y)
  /\ \A m \in Range(out.monthly_index) : MonthlyWritten(m)

====
